---- MODULE Spec2Model ----
(***************************************************************************)
(* Assignment lifecycle and per-recipient submission state of the          *)
(* huella-tesjo back end: the Assignment collection with its embedded      *)
(* responses, the TeacherStats cache, and the request handlers of          *)
(* controllers/assignmentController.js that mutate them.                   *)
(***************************************************************************)
EXTENDS Integers, Sequences, FiniteSets, TLC

VARIABLES
    assignments,   \* the Assignment collection; a document's _id is its index
    teacherStats,  \* the TeacherStats collection, by teacher
    now,           \* the clock read by `new Date()`
    res,           \* the HTTP answer of the last handler that ran
    requests,      \* the requests in flight, each between two of its awaits
    extraStats     \* TeacherStats documents of a teacher beyond the first

vars == <<assignments, teacherStats, now, res, requests, extraStats>>

\* what a handler that runs from its first await to its answer leaves alone
conc == <<requests, extraStats>>

----------------------------------------------------------------------------
(* Bounds of the model *)

MaxTime == 3          \* the clock runs 0..MaxTime
MaxDate == 2          \* a request carries dates 1..MaxDate
MaxAssignments == 2   \* documents the collection may hold

(* Users: role 'docente' and role 'admin' (models/Assignment.js:149-153) *)
Teachers == {"t1", "t2"}
Admins == {"admin"}
Users == Teachers \cup Admins

Times == 0..MaxTime
Dates == 1..MaxDate

NullDate == -1        \* a Date field holding null
UndefDate == -2       \* a Date key absent from an object
UNDEF == "undefined"  \* a key absent from an object
NULL == "null"
NoDateArg == 0        \* a date absent from a request body (falsy)
NoStats == [total |-> -1, completed |-> -1, pending |-> -1, overdue |-> -1]
NoResponse == [user |-> "none", submittedAt |-> NullDate,
               submissionStatus |-> NULL, status |-> NULL]

role(u) == IF u \in Admins THEN "admin" ELSE "docente"

\* the event loop interleaves at most this many handlers at their awaits
Procs == {"p1", "p2"}

\* a slot of the event loop with no request in it
Idle == [op |-> "none", pc |-> "idle", id |-> 0, user |-> "none", code |-> 0,
         note |-> "", doc |-> <<>>, delta |-> "none", at |-> 0, stale |-> FALSE,
         stats |-> NoStats, queue |-> <<>>, selected |-> {}, published |-> {}]

----------------------------------------------------------------------------
(* The response sub-schema and the array helpers the handlers use *)

\* Schema defaults of a pushed/assigned response: only an undefined key takes
\* its default, an explicit null is kept.
CastResponse(o, t) ==
    [user |-> o.user,
     submittedAt |-> IF o.submittedAt = UndefDate THEN t ELSE o.submittedAt,
     submissionStatus |-> IF o.submissionStatus = UNDEF THEN "on-time"
                          ELSE o.submissionStatus,
     status |-> IF o.status = UNDEF THEN "submitted" ELSE o.status]

\* Array.prototype.findIndex(r => r.user == u): 0 stands for -1
findIndex(responses, u) ==
    IF \E i \in 1..Len(responses) : responses[i].user = u
    THEN CHOOSE i \in 1..Len(responses) :
            /\ responses[i].user = u
            /\ \A j \in 1..(i - 1) : responses[j].user # u
    ELSE 0

\* Array.prototype.find(r => r.user == u)
find(responses, u) ==
    IF findIndex(responses, u) = 0 THEN NoResponse
    ELSE responses[findIndex(responses, u)]

hasResponse(a, u) == findIndex(a.responses, u) # 0

\* Array.prototype.filter(r => r.user != u)
filterOut(responses, u) == SelectSeq(responses, LAMBDA r : r.user # u)

----------------------------------------------------------------------------
(* Status mappings, one per call site *)

\* the view with the `submissionStatus === 'closed'` test left out
viewStatus_ClosedIgnored(a, u) ==
    LET response == find(a.responses, u) IN
    IF hasResponse(a, u) THEN
        IF response.status = "submitted" /\ response.submissionStatus = "on-time"
            THEN "completed"
        ELSE IF response.status = "submitted" /\ response.submissionStatus = "late"
            THEN "completed-late"
        ELSE IF response.status = "reviewed" /\ response.submittedAt = NullDate
            THEN "not-delivered"
        ELSE "pending"
    ELSE "pending"

\* getTeachersStatusForAssignment: the per-assignment view
viewStatus(a, u) ==
    LET response == find(a.responses, u) IN
    IF hasResponse(a, u) THEN
        IF response.status = "submitted" /\ response.submissionStatus = "on-time"
            THEN "completed"
        ELSE IF response.status = "submitted" /\ response.submissionStatus = "late"
            THEN "completed-late"
        ELSE IF response.submissionStatus = "closed"
                \/ (response.status = "reviewed" /\ response.submittedAt = NullDate)
            THEN "not-delivered"
        ELSE "pending"
    ELSE "pending"

\* getTeacherFilteredAssignments: the recipient listing (mappedStatus)
listingStatus(a, u, t) ==
    LET teacherResponse == find(a.responses, u)
        base == IF a.status = "active" THEN "pending" ELSE a.status
    IN
    IF hasResponse(a, u) THEN
        IF teacherResponse.status = "submitted"
              /\ teacherResponse.submissionStatus = "on-time"
            THEN "completed"
        ELSE IF teacherResponse.status = "submitted"
              /\ teacherResponse.submissionStatus = "late"
            THEN "completed-late"
        ELSE IF teacherResponse.submissionStatus = "closed"
                \/ (teacherResponse.status = "reviewed"
                    /\ teacherResponse.submittedAt = NullDate)
            THEN "not-delivered"
        ELSE "pending"
    ELSE IF base = "pending" /\ a.dueDate < t THEN "vencido" ELSE base

\* the counter with a late submission counted as overdue
statsBucket_LateNotCompleted(a, u, t) ==
    LET teacherResponse == find(a.responses, u) IN
    IF hasResponse(a, u) THEN
        IF teacherResponse.status = "submitted"
              /\ teacherResponse.submissionStatus = "on-time"
            THEN "completed"
        ELSE IF teacherResponse.submissionStatus \in {"late", "closed"}
                \/ (teacherResponse.status = "reviewed"
                    /\ teacherResponse.submittedAt = NullDate)
            THEN "overdue"
        ELSE "pending"
    ELSE IF a.dueDate > t THEN "pending" ELSE "overdue"

\* updateTeacherStats: the counter one assignment increments
statsBucket(a, u, t) ==
    LET teacherResponse == find(a.responses, u) IN
    IF hasResponse(a, u) THEN
        IF teacherResponse.status = "submitted"
              /\ teacherResponse.submissionStatus = "on-time"
            THEN "completed"
        ELSE IF teacherResponse.status = "submitted"
              /\ teacherResponse.submissionStatus = "late"
            THEN "completed"
        ELSE IF teacherResponse.submissionStatus = "closed"
                \/ (teacherResponse.status = "reviewed"
                    /\ teacherResponse.submittedAt = NullDate)
            THEN "overdue"
        ELSE "pending"
    ELSE IF a.dueDate > t THEN "pending" ELSE "overdue"

----------------------------------------------------------------------------
(* TeacherStats.updateTeacherStats *)

\* the for-loop over Assignment.find({assignedTo: teacherId}), from document i
RECURSIVE tally(_, _, _, _, _)
tally(asgs, u, t, i, acc) ==
    IF i > Len(asgs) THEN acc
    ELSE IF u \notin asgs[i].assignedTo THEN tally(asgs, u, t, i + 1, acc)
    ELSE LET b == statsBucket(asgs[i], u, t) IN
         tally(asgs, u, t, i + 1,
               [total |-> acc.total + 1,
                completed |-> acc.completed + (IF b = "completed" THEN 1 ELSE 0),
                pending |-> acc.pending + (IF b = "pending" THEN 1 ELSE 0),
                overdue |-> acc.overdue + (IF b = "overdue" THEN 1 ELSE 0)])

computeStats(asgs, u, t) ==
    tally(asgs, u, t, 1, [total |-> 0, completed |-> 0, pending |-> 0, overdue |-> 0])

\* the upsert written with $inc: the counters are added to the cached ones
upsertStats_Increment(stats, u, s) ==
    [stats EXCEPT ![u] =
        IF @ = NoStats THEN s
        ELSE [total |-> @.total + s.total, completed |-> @.completed + s.completed,
              pending |-> @.pending + s.pending, overdue |-> @.overdue + s.overdue]]

\* findOneAndUpdate({teacher}, {$set: {stats}}, {upsert: true})
upsertStats(stats, u, s) == [stats EXCEPT ![u] = s]

\* updateTeacherStats run for every teacher of a list, in order
RECURSIVE statsForAll(_, _, _, _)
statsForAll(stats, asgs, us, t) ==
    IF us = {} THEN stats
    ELSE LET u == CHOOSE x \in us : TRUE IN
         statsForAll(upsertStats(stats, u, computeStats(asgs, u, t)),
                     asgs, us \ {u}, t)

----------------------------------------------------------------------------
\* what a handler answers: the status code, a tag of the message, and whether the
\* recipient already had a response when the handler read the document
Answer(op, id, u, code, note, had) ==
    [op |-> op, id |-> id, user |-> u, code |-> code, note |-> note, had |-> had,
     body |-> <<>>]

\* an answer that carries a list of statuses
WithBody(answer, body) == [answer EXCEPT !.body = body]

exists(id) == id \in 1..Len(assignments)

Init ==
    /\ assignments = <<>>
    /\ teacherStats = [u \in Teachers |-> NoStats]
    /\ now = 0
    /\ res = Answer("none", 0, "none", 0, "", FALSE)
    /\ requests = [p \in Procs |-> Idle]
    /\ extraStats = [u \in Teachers |-> <<>>]

\* the clock advances between requests
Tick ==
    /\ now < MaxTime
    /\ now' = now + 1
    /\ res' = Answer("tick", 0, "none", 0, "", FALSE)
    /\ UNCHANGED <<assignments, teacherStats>>
    /\ UNCHANGED conc

----------------------------------------------------------------------------
(* Recipient-facing handlers *)

\* the check made on the caller's role instead of the assignment's recipients
isAssigned_AnyTeacher(a, u) == role(u) = "docente"

\* `assignment.assignedTo.includes(req.user._id)` of submitAssignmentResponse
isAssigned(a, u) == u \in a.assignedTo

\* the cutoff taken one day late
isClosed_DayLate(t, closeDate) == t > closeDate + 1

\* `now > closeDate` of submitAssignmentResponse
isClosed(t, closeDate) == t > closeDate

\* `now > closeDate` of markAssignmentCompleted
completionClosed(t, closeDate) == t > closeDate

\* the comparison written `now >= dueDate`
submissionStatusAt_DueIsLate(t, dueDate) == IF t >= dueDate THEN "late" ELSE "on-time"

\* 'late' when `now > dueDate`, else 'on-time'
submissionStatusAt(t, dueDate) == IF t > dueDate THEN "late" ELSE "on-time"

\* the response pushed without looking for an existing one
putResponse_AlwaysPush(responses, u, r) == Append(responses, r)

\* responses[existingIndex] = response, or responses.push(response)
putResponse(responses, u, r) ==
    IF findIndex(responses, u) # 0
    THEN [responses EXCEPT ![findIndex(responses, u)] = r]
    ELSE Append(responses, r)

submitAssignmentResponse(id, u) ==
    /\ IF ~exists(id) THEN
          /\ res' = Answer("submit", id, u, 404, "not_found", FALSE)
          /\ UNCHANGED assignments
       ELSE LET assignment == assignments[id]
                had == hasResponse(assignment, u)
                submissionStatus == submissionStatusAt(now, assignment.dueDate)
                response == CastResponse(
                    [user |-> u, submittedAt |-> now,
                     submissionStatus |-> submissionStatus, status |-> UNDEF], now)
            IN
            IF ~isAssigned(assignment, u) THEN
                /\ res' = Answer("submit", id, u, 403, "not_assigned", had)
                /\ UNCHANGED assignments
            ELSE IF isClosed(now, assignment.closeDate) THEN
                /\ res' = Answer("submit", id, u, 403, "closed", had)
                /\ UNCHANGED assignments
            ELSE
                /\ assignments' = [assignments EXCEPT ![id].responses =
                                      putResponse(assignment.responses, u, response)]
                /\ res' = Answer("submit", id, u, 200, submissionStatus, had)
    /\ UNCHANGED <<teacherStats, now>>
    /\ UNCHANGED conc

markAssignmentCompleted(id, u) ==
    /\ IF ~exists(id) THEN
          /\ res' = Answer("complete", id, u, 404, "not_found", FALSE)
          /\ UNCHANGED <<assignments, teacherStats>>
       ELSE LET assignment == assignments[id]
                had == hasResponse(assignment, u)
                responseData == CastResponse(
                    [user |-> u, submittedAt |-> now,
                     submissionStatus |-> "on-time", status |-> "submitted"], now)
                saved == [assignments EXCEPT
                            ![id].responses =
                                putResponse(assignment.responses, u, responseData),
                            ![id].status = "completed",
                            ![id].completedAt = now]
            IN
            IF u \notin assignment.assignedTo THEN
                /\ res' = Answer("complete", id, u, 403, "not_assigned", had)
                /\ UNCHANGED <<assignments, teacherStats>>
            ELSE IF assignment.status = "completed" THEN
                /\ res' = Answer("complete", id, u, 400, "already_completed", had)
                /\ UNCHANGED <<assignments, teacherStats>>
            ELSE IF completionClosed(now, assignment.closeDate) THEN
                /\ res' = Answer("complete", id, u, 403, "closed", had)
                /\ UNCHANGED <<assignments, teacherStats>>
            ELSE
                /\ assignments' = saved
                /\ teacherStats' = upsertStats(teacherStats, u,
                                               computeStats(saved, u, now))
                /\ res' = Answer("complete", id, u, 200, "completed", had)
    /\ UNCHANGED now
    /\ UNCHANGED conc

\* the guards of markAssignmentCompleted that recipient u passes on assignment a
canComplete(a, u, t) ==
    /\ u \in a.assignedTo
    /\ a.status # "completed"
    /\ ~completionClosed(t, a.closeDate)

\* the static method called on its own (the dashboard's lazy creation, a trigger);
\* the note tells an observer whether the call before it was the same recompute
updateTeacherStats(u) ==
    /\ teacherStats' = upsertStats(teacherStats, u, computeStats(assignments, u, now))
    /\ res' = Answer("stats", 0, u, 200,
                     IF res.op = "stats" /\ res.user = u THEN "again" ELSE "first",
                     teacherStats[u] # NoStats)
    /\ UNCHANGED <<assignments, now>>
    /\ UNCHANGED conc

\* the dashboard: the cached counters, created by a recompute only when the
\* recipient has no TeacherStats document yet
getUserDashboardStats(u) ==
    /\ IF teacherStats[u] = NoStats THEN
          LET created == upsertStats(teacherStats, u,
                                     computeStats(assignments, u, now))
          IN
          /\ teacherStats' = created
          /\ res' = WithBody(Answer("dashboard", 0, u, 200, "created", FALSE),
                             created[u])
       ELSE
          /\ res' = WithBody(Answer("dashboard", 0, u, 200, "cached", TRUE),
                             teacherStats[u])
          /\ UNCHANGED teacherStats
    /\ UNCHANGED <<assignments, now>>
    /\ UNCHANGED conc

----------------------------------------------------------------------------
(* Read paths that resolve a per-recipient status *)

getTeachersStatusForAssignment(id) ==
    /\ IF ~exists(id) THEN
          res' = Answer("view", id, "none", 404, "not_found", FALSE)
       ELSE
          res' = WithBody(Answer("view", id, "none", 200, "", FALSE),
                          [u \in assignments[id].assignedTo |->
                              viewStatus(assignments[id], u)])
    /\ UNCHANGED <<assignments, teacherStats, now>>
    /\ UNCHANGED conc

getTeacherFilteredAssignments(u) ==
    /\ res' = WithBody(Answer("listing", 0, u, 200, "", FALSE),
                       [i \in {j \in 1..Len(assignments) : u \in assignments[j].assignedTo}
                           |-> listingStatus(assignments[i], u, now)])
    /\ UNCHANGED <<assignments, teacherStats, now>>
    /\ UNCHANGED conc

----------------------------------------------------------------------------
(* Creation and the coarse status *)

NewAssignment(dueDate, closeDate, isGeneral, assignedTo, original) ==
    [dueDate |-> dueDate, closeDate |-> closeDate, isGeneral |-> isGeneral,
     assignedTo |-> assignedTo, status |-> "pending", completedAt |-> NullDate,
     originalAssignmentId |-> original, responses |-> <<>>]

\* enum of the coarse status in the schema
StatusEnum == {"pending", "completed"}

\* `closeDateObj < dueDateObj` of createAssignment
createDatesRejected(dueDate, closeDate) == closeDate < dueDate

createAssignment(dueDate, closeDate, isGeneral, assignedTo) ==
    /\ Len(assignments) < MaxAssignments
    /\ LET teachers == IF isGeneral THEN Teachers ELSE assignedTo
           saved == Append(assignments,
                           NewAssignment(dueDate, closeDate, isGeneral, teachers, 0))
       IN
       IF dueDate = NoDateArg \/ closeDate = NoDateArg THEN
           /\ res' = Answer("create", 0, "none", 400, "required", FALSE)
           /\ UNCHANGED <<assignments, teacherStats>>
       ELSE IF createDatesRejected(dueDate, closeDate) THEN
           /\ res' = Answer("create", 0, "none", 400, "dates", FALSE)
           /\ UNCHANGED <<assignments, teacherStats>>
       ELSE IF teachers = {} THEN
           /\ res' = Answer("create", 0, "none", 500, "no_teachers", FALSE)
           /\ UNCHANGED <<assignments, teacherStats>>
       ELSE
           /\ assignments' = saved
           /\ teacherStats' = statsForAll(teacherStats, saved, teachers, now)
           /\ res' = Answer("create", Len(saved), "none", 201, "created", FALSE)
    /\ UNCHANGED now
    /\ UNCHANGED conc

\* createAssignment when an awaited step after the save throws (the lookup of
\* the saved document or the sending of an e-mail, neither inside a try of its
\* own): the outer catch answers 500
createAssignmentSendFails(dueDate, closeDate, isGeneral, assignedTo) ==
    /\ Len(assignments) < MaxAssignments
    /\ LET teachers == IF isGeneral THEN Teachers ELSE assignedTo
           saved == Append(assignments,
                           NewAssignment(dueDate, closeDate, isGeneral, teachers, 0))
       IN
       IF \/ dueDate = NoDateArg \/ closeDate = NoDateArg
          \/ createDatesRejected(dueDate, closeDate)
          \/ teachers = {}
       THEN createAssignment(dueDate, closeDate, isGeneral, assignedTo)
       ELSE
           /\ assignments' = saved
           /\ teacherStats' = statsForAll(teacherStats, saved, teachers, now)
           /\ res' = Answer("create", Len(saved), "none", 500, "send_failed", FALSE)
           /\ UNCHANGED now
    /\ UNCHANGED conc

updateAssignmentStatus(id, status) ==
    /\ IF ~exists(id) THEN
          /\ res' = Answer("status", id, "none", 404, "not_found", FALSE)
          /\ UNCHANGED assignments
       ELSE IF status \notin StatusEnum THEN
          /\ res' = Answer("status", id, "none", 500, "validation", FALSE)
          /\ UNCHANGED assignments
       ELSE
          /\ assignments' = [assignments EXCEPT ![id].status = status]
          /\ res' = Answer("status", id, "none", 200, status, FALSE)
    /\ UNCHANGED <<teacherStats, now>>
    /\ UNCHANGED conc

----------------------------------------------------------------------------
(* Direct per-recipient status injection by the administrator *)

\* the switch of updateTeacherStatusInAssignment: the response a status maps to
injectedResponse(u, status, t) ==
    CASE status = "completed" ->
            [user |-> u, submittedAt |-> t,
             submissionStatus |-> "on-time", status |-> "submitted"]
      [] status = "completed-late" ->
            [user |-> u, submittedAt |-> t,
             submissionStatus |-> "late", status |-> "submitted"]
      [] status = "not-delivered" ->
            [user |-> u, submittedAt |-> NullDate,
             submissionStatus |-> "closed", status |-> "reviewed"]
      [] OTHER ->
            [user |-> u, submittedAt |-> NullDate,
             submissionStatus |-> NULL, status |-> NULL]

\* the array assigned anew with the one response
setResponse_ReplacesAll(responses, u, r, t) == <<CastResponse(r, t)>>

\* "teacherResponse.x = ..." on the found response, or responses.push({...})
setResponse(responses, u, r, t) ==
    IF findIndex(responses, u) # 0
    THEN [responses EXCEPT ![findIndex(responses, u)] =
             [@ EXCEPT !.submissionStatus = r.submissionStatus,
                       !.status = r.status,
                       !.submittedAt = r.submittedAt]]
    ELSE Append(responses, CastResponse(r, t))

updateTeacherStatusInAssignment(id, teacherId, status) ==
    /\ IF status \notin {"completed", "completed-late", "not-delivered", "pending"} THEN
          /\ res' = Answer("inject", id, teacherId, 400, "invalid_status", FALSE)
          /\ UNCHANGED assignments
       ELSE IF ~exists(id) THEN
          /\ res' = Answer("inject", id, teacherId, 404, "not_found", FALSE)
          /\ UNCHANGED assignments
       ELSE LET assignment == assignments[id]
                had == hasResponse(assignment, teacherId)
            IN
            IF teacherId \notin assignment.assignedTo THEN
                /\ res' = Answer("inject", id, teacherId, 400, "not_assigned", had)
                /\ UNCHANGED assignments
            ELSE
                /\ assignments' = [assignments EXCEPT ![id].responses =
                       IF status = "pending"
                       THEN filterOut(assignment.responses, teacherId)
                       ELSE setResponse(assignment.responses, teacherId,
                                        injectedResponse(teacherId, status, now), now)]
                /\ res' = Answer("inject", id, teacherId, 200, status, had)
    /\ UNCHANGED <<teacherStats, now>>
    /\ UNCHANGED conc

\* the response updateTeacherAssignmentStatus writes for a status at time t
directResponse(u, status, t, dueDate, closeDate) ==
    LET delivered == status \in {"entregado", "entregado_tarde"}
        submissionStatus == IF ~delivered THEN "on-time"
                            ELSE IF t > closeDate THEN "closed"
                            ELSE IF t > dueDate THEN "late"
                            ELSE "on-time"
    IN
    IF delivered
    THEN [user |-> u, submittedAt |-> t,
          submissionStatus |-> submissionStatus, status |-> "submitted"]
    ELSE [user |-> u, submittedAt |-> NullDate,
          submissionStatus |-> NULL, status |-> "reviewed"]

updateTeacherAssignmentStatus(caller, id, teacherId, status) ==
    /\ IF role(caller) # "admin" THEN
          /\ res' = Answer("direct", id, teacherId, 403, "not_admin", FALSE)
          /\ UNCHANGED assignments
       ELSE IF status \notin {"entregado", "entregado_tarde", "no_entregado", "pendiente"} THEN
          /\ res' = Answer("direct", id, teacherId, 400, "invalid_status", FALSE)
          /\ UNCHANGED assignments
       ELSE IF ~exists(id) THEN
          /\ res' = Answer("direct", id, teacherId, 404, "not_found", FALSE)
          /\ UNCHANGED assignments
       ELSE LET assignment == assignments[id]
                had == hasResponse(assignment, teacherId)
            IN
            IF teacherId \notin assignment.assignedTo THEN
                /\ res' = Answer("direct", id, teacherId, 400, "not_assigned", had)
                /\ UNCHANGED assignments
            ELSE
                /\ assignments' = [assignments EXCEPT ![id].responses =
                       setResponse(assignment.responses, teacherId,
                                   directResponse(teacherId, status, now,
                                                  assignment.dueDate,
                                                  assignment.closeDate), now)]
                /\ res' = Answer("direct", id, teacherId, 200, status, had)
    /\ UNCHANGED <<teacherStats, now>>
    /\ UNCHANGED conc

----------------------------------------------------------------------------
(* updateAssignmentByAdmin: normal edit, or fork of one recipient *)

\* request bodies: a date of NoDateArg, an isGeneral of UNDEF, hasAssignedTo =
\* FALSE and a specificTeacherId of "none" stand for an absent field
Bodies ==
    [dueDate : Dates \cup {NoDateArg}, closeDate : Dates \cup {NoDateArg},
     isGeneral : {"true", "false", UNDEF},
     hasAssignedTo : BOOLEAN, assignedTo : SUBSET Teachers,
     specificTeacherId : Teachers \cup {"none"}]

\* "if (filteredData.dueDate && filteredData.closeDate) { if (closeDate < dueDate)"
updateDatesRejected(body) ==
    /\ body.dueDate # NoDateArg
    /\ body.closeDate # NoDateArg
    /\ body.closeDate < body.dueDate

\* "filteredData.x || assignment.x"
orElse(x, y) == IF x # NoDateArg THEN x ELSE y

\* findByIdAndUpdate(assignmentId, filteredData)
applyUpdate(a, body) ==
    [a EXCEPT
        !.dueDate = orElse(body.dueDate, @),
        !.closeDate = orElse(body.closeDate, @),
        !.isGeneral = IF body.isGeneral = UNDEF THEN @ ELSE body.isGeneral = "true",
        !.assignedTo = IF body.isGeneral = "true" THEN {}
                       ELSE IF body.hasAssignedTo THEN body.assignedTo
                       ELSE @]

\* the specific assignment built with the original's coarse status
forkOf_CopiesStatus(a, id, teacherId, body) ==
    [NewAssignment(orElse(body.dueDate, a.dueDate), orElse(body.closeDate, a.closeDate),
                   FALSE, {teacherId}, id) EXCEPT !.status = a.status]

\* new Assignment({...}) of the specific edit
forkOf(a, id, teacherId, body) ==
    NewAssignment(orElse(body.dueDate, a.dueDate), orElse(body.closeDate, a.closeDate),
                  FALSE, {teacherId}, id)

updateAssignmentByAdmin(caller, id, body) ==
    /\ body.specificTeacherId # "none" => Len(assignments) < MaxAssignments
    /\ body.hasAssignedTo \/ body.assignedTo = {}
    /\ IF role(caller) # "admin" THEN
          /\ res' = Answer("update", id, "none", 403, "not_admin", FALSE)
          /\ UNCHANGED <<assignments, teacherStats>>
       ELSE IF ~exists(id) THEN
          /\ res' = Answer("update", id, "none", 404, "not_found", FALSE)
          /\ UNCHANGED <<assignments, teacherStats>>
       ELSE IF updateDatesRejected(body) THEN
          /\ res' = Answer("update", id, "none", 400, "dates", FALSE)
          /\ UNCHANGED <<assignments, teacherStats>>
       ELSE LET assignment == assignments[id]
                t == body.specificTeacherId
            IN
            IF t # "none" THEN
                IF t \notin assignment.assignedTo THEN
                    /\ res' = Answer("fork", id, t, 400, "not_assigned", FALSE)
                    /\ UNCHANGED <<assignments, teacherStats>>
                ELSE
                    LET saved == Append(
                            [assignments EXCEPT ![id].assignedTo = @ \ {t}],
                            forkOf(assignment, id, t, body))
                    IN
                    /\ assignments' = saved
                    /\ teacherStats' = upsertStats(teacherStats, t,
                                                   computeStats(saved, t, now))
                    /\ res' = Answer("fork", id, t, 200, "specific_assignment_created",
                                     hasResponse(assignment, t))
            ELSE
                LET saved == [assignments EXCEPT ![id] = applyUpdate(@, body)]
                    touched == body.isGeneral = "true" \/ body.hasAssignedTo
                IN
                /\ assignments' = saved
                /\ teacherStats' =
                       IF touched
                       THEN statsForAll(teacherStats, saved,
                                        assignment.assignedTo \cup saved[id].assignedTo, now)
                       ELSE teacherStats
                /\ res' = Answer("update", id, "none", 200, "assignment_updated", FALSE)
    /\ UNCHANGED now
    /\ UNCHANGED conc

----------------------------------------------------------------------------
(* Completion by the administrator, one assignment or several *)

\* completedBy and adminCompleted are not paths of the schema: assigning them
\* on the document stores nothing
markAssignmentCompletedByAdmin(caller, id) ==
    /\ IF role(caller) # "admin" THEN
          /\ res' = Answer("adminComplete", id, caller, 403, "not_admin", FALSE)
          /\ UNCHANGED assignments
       ELSE IF ~exists(id) THEN
          /\ res' = Answer("adminComplete", id, caller, 404, "not_found", FALSE)
          /\ UNCHANGED assignments
       ELSE IF assignments[id].status = "completed" THEN
          /\ res' = Answer("adminComplete", id, caller, 400, "already_completed", FALSE)
          /\ UNCHANGED assignments
       ELSE
          /\ assignments' = [assignments EXCEPT ![id].status = "completed",
                                                ![id].completedAt = now]
          /\ res' = Answer("adminComplete", id, caller, 200, "completed", FALSE)
    /\ UNCHANGED <<teacherStats, now>>
    /\ UNCHANGED conc

\* the filter without `status: { $ne: 'completed' }`
bulkMatches_AlsoCompleted(asgs, i, ids) == i \in ids

\* the filter of updateMany: { _id: { $in: assignmentIds }, status: { $ne: 'completed' } }
bulkMatches(asgs, i, ids) == i \in ids /\ asgs[i].status # "completed"

\* the teachers of Assignment.find({ _id: { $in: assignmentIds } })
bulkTeachers(asgs, ids) ==
    UNION {asgs[i].assignedTo : i \in ids \cap (1..Len(asgs))}

markMultipleAssignmentsCompleted(caller, assignmentIds) ==
    /\ IF assignmentIds = {} THEN
          /\ res' = Answer("bulk", 0, caller, 400, "no_ids", FALSE)
          /\ UNCHANGED <<assignments, teacherStats>>
       ELSE
          LET matched == {i \in 1..Len(assignments) :
                             bulkMatches(assignments, i, assignmentIds)}
              saved == [i \in 1..Len(assignments) |->
                           IF i \in matched
                           THEN [assignments[i] EXCEPT !.status = "completed",
                                                       !.completedAt = now]
                           ELSE assignments[i]]
          IN
          /\ assignments' = saved
          /\ teacherStats' = statsForAll(teacherStats, saved,
                                         bulkTeachers(saved, assignmentIds), now)
          /\ res' = WithBody(Answer("bulk", 0, caller, 200, "marked", FALSE),
                             [modifiedCount |-> Cardinality(matched),
                              assignmentIds |-> assignmentIds])
    /\ UNCHANGED now
    /\ UNCHANGED conc

----------------------------------------------------------------------------
(* publishScheduledAssignments: the run of the publication job *)

\* the enum validator of the coarse status, run by save() on a modified status
validStatus(status) == status \in StatusEnum

\* Assignment.find({scheduledPublish: true, status: 'scheduled',
\* publishDate: {$lte: now}}). scheduledPublish and publishDate are not paths of
\* the schema: a build with strictQuery drops them from the filter, a build
\* without it compares the stored values.
publishSelects(a, t, strictQuery) ==
    /\ a.status = "scheduled"
    /\ strictQuery \/ (a.scheduledPublish /\ a.publishDate <= t)

\* the for-loop over assignmentsToPublish, from the head of the queue: the
\* stored collection, the values assigned to each held document's status, and
\* whether the loop ran to its end. A save() rejected inside the per-item catch
\* leaves the loop for the outer catch.
RECURSIVE publishLoop(_, _, _)
publishLoop(asgs, queue, writes) ==
    IF queue = <<>> THEN [asgs |-> asgs, writes |-> writes, success |-> TRUE]
    ELSE LET id == Head(queue) IN
         IF validStatus("active") THEN
             publishLoop(
                 [asgs EXCEPT ![id].status = "active",
                              ![id].assignedTo = IF asgs[id].isGeneral THEN Teachers
                                                 ELSE @],
                 Tail(queue), [writes EXCEPT ![id] = <<"active">>])
         ELSE IF validStatus("publication_error") THEN
             publishLoop([asgs EXCEPT ![id].status = "publication_error"],
                         Tail(queue),
                         [writes EXCEPT ![id] = <<"active", "publication_error">>])
         ELSE [asgs |-> asgs,
               writes |-> [writes EXCEPT ![id] = <<"active", "publication_error">>],
               success |-> FALSE]

\* the ids of a set as the find returns them, in ascending order from id i
RECURSIVE inOrder(_, _, _)
inOrder(ids, i, n) ==
    IF i > n THEN <<>>
    ELSE IF i \in ids THEN <<i>> \o inOrder(ids, i + 1, n)
    ELSE inOrder(ids, i + 1, n)

publishScheduledAssignments(strictQuery) ==
    /\ LET selected == {i \in 1..Len(assignments) :
                           publishSelects(assignments[i], now, strictQuery)}
           run == publishLoop(assignments, inOrder(selected, 1, Len(assignments)),
                              [i \in selected |-> <<>>])
       IN
       /\ assignments' = run.asgs
       /\ res' = WithBody(
                    Answer("publish", 0, "none", IF run.success THEN 200 ELSE 500,
                           IF run.success THEN "published" ELSE "error", FALSE),
                    [selected |-> selected, writes |-> run.writes,
                     publishedCount |-> IF run.success THEN Cardinality(selected)
                                        ELSE 0])
    /\ UNCHANGED <<teacherStats, now>>
    /\ UNCHANGED conc

----------------------------------------------------------------------------
(* Scheduled assignments: scheduleAssignment, cancelScheduledAssignment,
   updateScheduledAssignment *)

\* "if (publishDateObj < now) publishDateObj.setTime(now.getTime() + 1000)": one
\* second after now, an instant no date of the model lies before
movedForward(publishDate, t) == IF publishDate < t THEN t ELSE publishDate

\* `assignment.scheduledPublish` read on a loaded document: scheduledPublish is
\* not a path of the schema, so the document has no such property
scheduledPublishOf(a) == FALSE

scheduleAssignment(publishDate, dueDate, closeDate, assignToAll, assignedTo) ==
    /\ Len(assignments) < MaxAssignments
    /\ LET publishDateObj == movedForward(publishDate, now)
           \* new Assignment(assignmentData): the keys that are not paths of the
           \* schema (publishDate, scheduledPublish, priority, ...) are dropped
           scheduledAssignment ==
               [NewAssignment(dueDate, closeDate, assignToAll,
                              IF assignToAll THEN {} ELSE assignedTo, 0)
                   EXCEPT !.status = "scheduled"]
       IN
       IF publishDate = NoDateArg \/ dueDate = NoDateArg \/ closeDate = NoDateArg THEN
           /\ res' = Answer("schedule", 0, "none", 400, "required", FALSE)
           /\ UNCHANGED assignments
       ELSE IF dueDate <= publishDateObj THEN
           /\ res' = Answer("schedule", 0, "none", 400, "due_before_publish", FALSE)
           /\ UNCHANGED assignments
       ELSE IF closeDate <= dueDate THEN
           /\ res' = Answer("schedule", 0, "none", 400, "close_before_due", FALSE)
           /\ UNCHANGED assignments
       ELSE IF ~assignToAll /\ assignedTo = {} THEN
           /\ res' = Answer("schedule", 0, "none", 400, "no_teachers", FALSE)
           /\ UNCHANGED assignments
       ELSE IF ~validStatus(scheduledAssignment.status) THEN
           /\ res' = Answer("schedule", 0, "none", 400, "validation", FALSE)
           /\ UNCHANGED assignments
       ELSE
           /\ assignments' = Append(assignments, scheduledAssignment)
           /\ res' = Answer("schedule", Len(assignments) + 1, "none", 201,
                            "scheduled", FALSE)
    /\ UNCHANGED <<teacherStats, now>>
    /\ UNCHANGED conc

cancelScheduledAssignment(id) ==
    /\ IF ~exists(id) THEN
          /\ res' = Answer("cancel", id, "none", 404, "not_found", FALSE)
          /\ UNCHANGED assignments
       ELSE IF ~scheduledPublishOf(assignments[id]) THEN
          /\ res' = Answer("cancel", id, "none", 400, "not_a_scheduled_assignment", FALSE)
          /\ UNCHANGED assignments
       ELSE IF assignments[id].status # "scheduled" THEN
          /\ res' = Answer("cancel", id, "none", 400, "not_scheduled", FALSE)
          /\ UNCHANGED assignments
       ELSE IF ~validStatus("cancelled") THEN
          /\ res' = Answer("cancel", id, "none", 500, "validation", FALSE)
          /\ UNCHANGED assignments
       ELSE
          /\ assignments' = [assignments EXCEPT ![id].status = "cancelled"]
          /\ res' = Answer("cancel", id, "none", 200, "cancelled", FALSE)
    /\ UNCHANGED <<teacherStats, now>>
    /\ UNCHANGED conc

\* the three dates of the request; a date absent from it is NoDateArg. The
\* publishDate of the stored document is undefined (not a path of the schema),
\* an invalid Date that every comparison answers false for.
updateScheduledAssignment(id, publishDate, dueDate, closeDate) ==
    /\ IF ~exists(id) THEN
          /\ res' = Answer("reschedule", id, "none", 404, "not_found", FALSE)
          /\ UNCHANGED assignments
       ELSE IF ~scheduledPublishOf(assignments[id]) THEN
          /\ res' = Answer("reschedule", id, "none", 400,
                           "not_a_scheduled_assignment", FALSE)
          /\ UNCHANGED assignments
       ELSE IF assignments[id].status # "scheduled" THEN
          /\ res' = Answer("reschedule", id, "none", 400, "not_scheduled", FALSE)
          /\ UNCHANGED assignments
       ELSE LET due == orElse(dueDate, assignments[id].dueDate)
                close == orElse(closeDate, assignments[id].closeDate)
                anyDate == publishDate # NoDateArg \/ dueDate # NoDateArg
                              \/ closeDate # NoDateArg
            IN
            IF anyDate /\ publishDate # NoDateArg /\ publishDate <= now THEN
                /\ res' = Answer("reschedule", id, "none", 400, "publish_in_past", FALSE)
                /\ UNCHANGED assignments
            ELSE IF anyDate /\ publishDate # NoDateArg /\ due <= publishDate THEN
                /\ res' = Answer("reschedule", id, "none", 400,
                                 "due_before_publish", FALSE)
                /\ UNCHANGED assignments
            ELSE IF anyDate /\ close <= due THEN
                /\ res' = Answer("reschedule", id, "none", 400, "close_before_due", FALSE)
                /\ UNCHANGED assignments
            ELSE
                /\ assignments' = [assignments EXCEPT ![id].dueDate = due,
                                                      ![id].closeDate = close]
                /\ res' = Answer("reschedule", id, "none", 200, "updated", FALSE)
    /\ UNCHANGED <<teacherStats, now>>
    /\ UNCHANGED conc

----------------------------------------------------------------------------
(* Handlers interleaved at their awaits. Node runs a handler from one await to
   the next without interruption; between the findById/find of a handler and
   its save() another handler may run. A slot of Procs serves one request. *)

\* a request of handler op in slot p, past its read
Held(op, id, u, note) ==
    [Idle EXCEPT !.op = op, !.pc = "loaded", !.id = id, !.user = u, !.note = note]

\* a request that has answered
Answered(r, code) == [r EXCEPT !.pc = "done", !.code = code]

\* no request holds a document between its read and its save
quiet == \A p \in Procs : requests[p].pc \in {"idle", "done"}

\* What save() sends for the modified paths of the held document:
\*   "push"       responses.push(x)              -> $push, $inc __v
\*   "set_array"  responses = responses.filter() -> $set of the array, __v
\*                                                  matched and incremented
\*   "set_index"  responses[i] = x               -> $set responses.i, __v matched
\*   "set_fields" responses[i].f = x             -> $set responses.i.f, __v matched
\*   "none"       no path of responses modified
checksVersion(delta) == delta \in {"set_array", "set_index", "set_fields"}
bumpsVersion(delta) == delta \in {"push", "set_array"}

\* the update applied to the present array instead of the held one
saveDelta_Merges(stored, r) ==
    CASE r.delta = "push" -> Append(stored, r.doc[r.at])
      [] r.delta = "set_array" -> filterOut(stored, r.user)
      [] r.delta = "set_index" -> [stored EXCEPT ![r.at] = r.doc[r.at]]
      [] r.delta = "set_fields" ->
            [stored EXCEPT ![r.at] =
                [@ EXCEPT !.submissionStatus = r.doc[r.at].submissionStatus,
                          !.status = r.doc[r.at].status,
                          !.submittedAt = r.doc[r.at].submittedAt]]
      [] OTHER -> stored

\* the stored responses after the update save() sends for request r
saveDelta(stored, r) ==
    CASE r.delta = "push" -> Append(stored, r.doc[r.at])
      [] r.delta = "set_array" -> r.doc
      [] r.delta = "set_index" -> [stored EXCEPT ![r.at] = r.doc[r.at]]
      [] r.delta = "set_fields" ->
            [stored EXCEPT ![r.at] =
                [@ EXCEPT !.submissionStatus = r.doc[r.at].submissionStatus,
                          !.status = r.doc[r.at].status,
                          !.submittedAt = r.doc[r.at].submittedAt]]
      [] OTHER -> stored

\* "await assignment.save()" of the request in slot p and the answer after it;
\* a version that no longer matches throws into the handler's catch (500)
save(p) ==
    LET r == requests[p] IN
    IF checksVersion(r.delta) /\ r.stale THEN
        /\ requests' = [requests EXCEPT ![p] = Answered(r, 500)]
        /\ res' = Answer(r.op, r.id, r.user, 500, "version_error", FALSE)
        /\ UNCHANGED assignments
    ELSE
        /\ assignments' = [assignments EXCEPT ![r.id].responses = saveDelta(@, r)]
        /\ requests' = [q \in Procs |->
              IF q = p THEN Answered(r, 200)
              ELSE IF /\ bumpsVersion(r.delta)
                      /\ requests[q].pc = "loaded"
                      /\ requests[q].op \in {"submit", "inject"}
                      /\ requests[q].id = r.id
                   THEN [requests[q] EXCEPT !.stale = TRUE]
                   ELSE requests[q]]
        /\ res' = Answer(r.op, r.id, r.user, 200, r.note, FALSE)

\* submitAssignmentResponse from its findById to the held document modified
submitRead(p, id, u) ==
    /\ requests[p].pc = "idle"
    /\ IF ~exists(id) THEN
          /\ requests' = [requests EXCEPT ![p] =
                             Answered(Held("submit", id, u, "not_found"), 404)]
          /\ res' = Answer("submit", id, u, 404, "not_found", FALSE)
       ELSE LET assignment == assignments[id]
                existingResponseIndex == findIndex(assignment.responses, u)
                submissionStatus == submissionStatusAt(now, assignment.dueDate)
                response == CastResponse(
                    [user |-> u, submittedAt |-> now,
                     submissionStatus |-> submissionStatus, status |-> UNDEF], now)
            IN
            IF ~isAssigned(assignment, u) THEN
                /\ requests' = [requests EXCEPT ![p] =
                                   Answered(Held("submit", id, u, "not_assigned"), 403)]
                /\ res' = Answer("submit", id, u, 403, "not_assigned", FALSE)
            ELSE IF isClosed(now, assignment.closeDate) THEN
                /\ requests' = [requests EXCEPT ![p] =
                                   Answered(Held("submit", id, u, "closed"), 403)]
                /\ res' = Answer("submit", id, u, 403, "closed", FALSE)
            ELSE
                /\ requests' = [requests EXCEPT ![p] =
                      [Held("submit", id, u, submissionStatus) EXCEPT
                          !.doc = putResponse(assignment.responses, u, response),
                          !.delta = IF existingResponseIndex # 0 THEN "set_index"
                                    ELSE "push",
                          !.at = IF existingResponseIndex # 0
                                 THEN existingResponseIndex
                                 ELSE Len(assignment.responses) + 1]]
                /\ UNCHANGED res
    /\ UNCHANGED <<assignments, teacherStats, now, extraStats>>

\* submitAssignmentResponse from its save() to its answer
submitSave(p) ==
    /\ requests[p].pc = "loaded"
    /\ requests[p].op = "submit"
    /\ save(p)
    /\ UNCHANGED <<teacherStats, now, extraStats>>

\* updateTeacherStatusInAssignment from its findById to the held document modified
injectRead(p, id, teacherId, status) ==
    /\ requests[p].pc = "idle"
    /\ IF status \notin {"completed", "completed-late", "not-delivered", "pending"} THEN
          /\ requests' = [requests EXCEPT ![p] =
                             Answered(Held("inject", id, teacherId, "invalid_status"), 400)]
          /\ res' = Answer("inject", id, teacherId, 400, "invalid_status", FALSE)
       ELSE IF ~exists(id) THEN
          /\ requests' = [requests EXCEPT ![p] =
                             Answered(Held("inject", id, teacherId, "not_found"), 404)]
          /\ res' = Answer("inject", id, teacherId, 404, "not_found", FALSE)
       ELSE LET assignment == assignments[id]
                index == findIndex(assignment.responses, teacherId)
            IN
            IF teacherId \notin assignment.assignedTo THEN
                /\ requests' = [requests EXCEPT ![p] =
                                   Answered(Held("inject", id, teacherId, "not_assigned"), 400)]
                /\ res' = Answer("inject", id, teacherId, 400, "not_assigned", FALSE)
            ELSE
                /\ requests' = [requests EXCEPT ![p] =
                      [Held("inject", id, teacherId, status) EXCEPT
                          !.doc = IF status = "pending"
                                  THEN filterOut(assignment.responses, teacherId)
                                  ELSE setResponse(assignment.responses, teacherId,
                                           injectedResponse(teacherId, status, now), now),
                          !.delta = IF status = "pending"
                                    THEN (IF index # 0 THEN "set_array" ELSE "none")
                                    ELSE (IF index # 0 THEN "set_fields" ELSE "push"),
                          !.at = IF index # 0 THEN index
                                 ELSE Len(assignment.responses) + 1]]
                /\ UNCHANGED res
    /\ UNCHANGED <<assignments, teacherStats, now, extraStats>>

\* updateTeacherStatusInAssignment from its save() to its answer
injectSave(p) ==
    /\ requests[p].pc = "loaded"
    /\ requests[p].op = "inject"
    /\ save(p)
    /\ UNCHANGED <<teacherStats, now, extraStats>>

\* a run of publishScheduledAssignments up to the answer of its find
publishFind(p, strictQuery) ==
    /\ requests[p].pc = "idle"
    /\ LET selected == {i \in 1..Len(assignments) :
                           publishSelects(assignments[i], now, strictQuery)}
       IN requests' = [requests EXCEPT ![p] =
              [Held("publish", 0, "none", "") EXCEPT
                  !.selected = selected,
                  !.queue = inOrder(selected, 1, Len(assignments))]]
    /\ UNCHANGED <<assignments, teacherStats, now, res, extraStats>>

\* one turn of the run's for-loop in slot p: the activation of the assignment at
\* the head of its list, the roster snapshot and the notifications, or the
\* per-item catch; after the last one the run answers
publishItem(p) ==
    /\ requests[p].pc = "loaded"
    /\ requests[p].op = "publish"
    /\ LET r == requests[p] IN
       IF r.queue = <<>> THEN
           /\ requests' = [requests EXCEPT ![p] = Answered(r, 200)]
           /\ res' = Answer("publish", 0, "none", 200, "published", FALSE)
           /\ UNCHANGED assignments
       ELSE LET id == Head(r.queue) IN
           IF validStatus("active") THEN
               /\ assignments' = [assignments EXCEPT
                      ![id].status = "active",
                      ![id].assignedTo = IF assignments[id].isGeneral THEN Teachers
                                         ELSE @]
               /\ requests' = [requests EXCEPT ![p].queue = Tail(r.queue),
                                               ![p].published = @ \cup {id}]
               /\ UNCHANGED res
           ELSE IF validStatus("publication_error") THEN
               /\ assignments' = [assignments EXCEPT ![id].status = "publication_error"]
               /\ requests' = [requests EXCEPT ![p].queue = Tail(r.queue)]
               /\ UNCHANGED res
           ELSE
               /\ requests' = [requests EXCEPT ![p] = Answered(r, 500)]
               /\ res' = Answer("publish", 0, "none", 500, "error", FALSE)
               /\ UNCHANGED assignments
    /\ UNCHANGED <<teacherStats, now, extraStats>>

\* TeacherStats.updateTeacherStats(u) up to the counters computed from the
\* answer of Assignment.find
statsCompute(p, u) ==
    /\ requests[p].pc = "idle"
    /\ requests' = [requests EXCEPT ![p] =
           [Held("stats", 0, u, "") EXCEPT
               !.pc = "computed", !.stats = computeStats(assignments, u, now)]]
    /\ UNCHANGED <<assignments, teacherStats, now, res, extraStats>>

\* findOneAndUpdate({teacher: u}, {$set: {stats}}, {upsert: true}): the server
\* matches first; the $set on a matched document is atomic, and with no unique
\* index on teacher a query that matched nothing goes on to insert
statsUpsert(p) ==
    /\ requests[p].pc = "computed"
    /\ LET r == requests[p] IN
       IF teacherStats[r.user] # NoStats THEN
           /\ teacherStats' = upsertStats(teacherStats, r.user, r.stats)
           /\ requests' = [requests EXCEPT ![p] = Answered(r, 200)]
           /\ res' = Answer("stats", 0, r.user, 200, "updated", TRUE)
       ELSE
           /\ requests' = [requests EXCEPT ![p].pc = "inserting"]
           /\ UNCHANGED <<teacherStats, res>>
    /\ UNCHANGED <<assignments, now, extraStats>>

\* the insert of an upsert whose query matched nothing: a second document when
\* another upsert has inserted one in between
statsInsert(p) ==
    /\ requests[p].pc = "inserting"
    /\ LET r == requests[p] IN
       /\ IF teacherStats[r.user] = NoStats
          THEN /\ teacherStats' = upsertStats(teacherStats, r.user, r.stats)
               /\ UNCHANGED extraStats
          ELSE /\ extraStats' = [extraStats EXCEPT ![r.user] = Append(@, r.stats)]
               /\ UNCHANGED teacherStats
       /\ requests' = [requests EXCEPT ![p] = Answered(r, 200)]
       /\ res' = Answer("stats", 0, r.user, 200, "inserted", FALSE)
    /\ UNCHANGED <<assignments, now>>

----------------------------------------------------------------------------
(* The specific edit of updateAssignmentByAdmin, step by step: it reads the
   original, saves the new assignment, and then pulls the recipient from the
   original *)

\* documents the collection may hold while specific edits interleave
MaxForkDocs == 3

\* from the role check to the new Assignment({...}) built from the original read
forkRead(p, caller, id, body) ==
    /\ requests[p].pc = "idle"
    /\ body.specificTeacherId # "none"
    /\ LET t == body.specificTeacherId IN
       IF role(caller) # "admin" THEN
          /\ requests' = [requests EXCEPT ![p] =
                             Answered(Held("fork", id, t, "not_admin"), 403)]
          /\ res' = Answer("update", id, "none", 403, "not_admin", FALSE)
       ELSE IF ~exists(id) THEN
          /\ requests' = [requests EXCEPT ![p] =
                             Answered(Held("fork", id, t, "not_found"), 404)]
          /\ res' = Answer("update", id, "none", 404, "not_found", FALSE)
       ELSE IF updateDatesRejected(body) THEN
          /\ requests' = [requests EXCEPT ![p] =
                             Answered(Held("fork", id, t, "dates"), 400)]
          /\ res' = Answer("update", id, "none", 400, "dates", FALSE)
       ELSE IF t \notin assignments[id].assignedTo THEN
          /\ requests' = [requests EXCEPT ![p] =
                             Answered(Held("fork", id, t, "not_assigned"), 400)]
          /\ res' = Answer("fork", id, t, 400, "not_assigned", FALSE)
       ELSE
          /\ requests' = [requests EXCEPT ![p] =
                [Held("fork", id, t, "specific_assignment_created") EXCEPT
                    !.doc = <<forkOf(assignments[id], id, t, body)>>]]
          /\ UNCHANGED res
    /\ UNCHANGED <<assignments, teacherStats, now, extraStats>>

\* "await specificAssignment.save()"
forkSave(p) ==
    /\ requests[p].pc = "loaded"
    /\ requests[p].op = "fork"
    /\ Len(assignments) < MaxForkDocs
    /\ assignments' = Append(assignments, requests[p].doc[1])
    /\ requests' = [requests EXCEPT ![p].pc = "saved"]
    /\ UNCHANGED <<teacherStats, now, res, extraStats>>

\* findByIdAndUpdate(assignmentId, {$pull: {assignedTo}}), the recompute of the
\* recipient's stats and the answer
forkPull(p) ==
    /\ requests[p].pc = "saved"
    /\ LET r == requests[p]
           saved == [assignments EXCEPT ![r.id].assignedTo = @ \ {r.user}]
       IN
       /\ assignments' = saved
       /\ teacherStats' = upsertStats(teacherStats, r.user,
                                      computeStats(saved, r.user, now))
       /\ requests' = [requests EXCEPT ![p] = Answered(r, 200)]
       /\ res' = Answer("fork", r.id, r.user, 200, r.note, FALSE)
    /\ UNCHANGED <<now, extraStats>>

----------------------------------------------------------------------------
(* The auth middleware of the routes: it leaves the authenticated user in
   req.user for the handler that follows it in the chain *)
auth(u) ==
    /\ res' = Answer("auth", 0, u, 0, "", FALSE)
    /\ UNCHANGED <<assignments, teacherStats, now>>
    /\ UNCHANGED conc

----------------------------------------------------------------------------
Ids == 1..MaxAssignments
InjectStatuses == {"completed", "completed-late", "not-delivered", "pending"}

\* the handlers run from their first await to their answer
Handlers ==
    \/ Tick
    \/ \E d \in Dates \cup {NoDateArg}, c \in Dates \cup {NoDateArg},
          g \in BOOLEAN, to \in SUBSET Teachers : createAssignment(d, c, g, to)
    \/ \E d \in Dates \cup {NoDateArg}, c \in Dates \cup {NoDateArg},
          g \in BOOLEAN, to \in SUBSET Teachers : createAssignmentSendFails(d, c, g, to)
    \/ \E id \in Ids, u \in Users : submitAssignmentResponse(id, u)
    \/ \E id \in Ids, u \in Users : markAssignmentCompleted(id, u)
    \/ \E u \in Teachers : updateTeacherStats(u)
    \/ \E u \in Teachers : getUserDashboardStats(u)
    \/ \E id \in Ids : getTeachersStatusForAssignment(id)
    \/ \E u \in Teachers : getTeacherFilteredAssignments(u)
    \/ \E id \in Ids, s \in StatusEnum \cup {"active"} : updateAssignmentStatus(id, s)
    \/ \E id \in Ids, u \in Teachers,
          s \in {"completed", "completed-late", "not-delivered", "pending", "other"} :
            updateTeacherStatusInAssignment(id, u, s)
    \/ \E caller \in Users, id \in Ids, u \in Teachers,
          s \in {"entregado", "entregado_tarde", "no_entregado", "pendiente", "otro"} :
            updateTeacherAssignmentStatus(caller, id, u, s)
    \/ \E caller \in Users, id \in Ids, body \in Bodies :
            updateAssignmentByAdmin(caller, id, body)
    \/ \E caller \in Users, id \in Ids : markAssignmentCompletedByAdmin(caller, id)
    \/ \E caller \in Users, ids \in SUBSET Ids :
            markMultipleAssignmentsCompleted(caller, ids)
    \/ \E strictQuery \in BOOLEAN : publishScheduledAssignments(strictQuery)
    \/ \E p \in Times \cup {NoDateArg}, d \in Dates \cup {NoDateArg},
          c \in Dates \cup {NoDateArg}, g \in BOOLEAN, to \in SUBSET Teachers :
            scheduleAssignment(p, d, c, g, to)
    \/ \E id \in Ids : cancelScheduledAssignment(id)
    \/ \E id \in Ids, p \in Times \cup {NoDateArg}, d \in Dates \cup {NoDateArg},
          c \in Dates \cup {NoDateArg} : updateScheduledAssignment(id, p, d, c)

\* a handler runs whole when no request holds a document it read, or step by
\* step in a slot of the event loop
Next ==
    \/ quiet /\ Handlers
    \/ Tick
    \/ \E p \in Procs, id \in Ids, u \in Teachers : submitRead(p, id, u)
    \/ \E p \in Procs : submitSave(p)
    \/ \E p \in Procs, id \in Ids, u \in Teachers, st \in InjectStatuses :
          injectRead(p, id, u, st)
    \/ \E p \in Procs : injectSave(p)
    \/ \E p \in Procs, strictQuery \in BOOLEAN : publishFind(p, strictQuery)
    \/ \E p \in Procs : publishItem(p)
    \/ \E p \in Procs, u \in Teachers : statsCompute(p, u)
    \/ \E p \in Procs : statsUpsert(p)
    \/ \E p \in Procs : statsInsert(p)
    \/ \E p \in Procs, id \in Ids, body \in Bodies : forkRead(p, "admin", id, body)
    \/ \E p \in Procs : forkSave(p)
    \/ \E p \in Procs : forkPull(p)

Spec == Init /\ [][Next]_vars

----------------------------------------------------------------------------
(* The response ledger of one assignment: every handler that writes a response *)

DirectStatuses == {"entregado", "entregado_tarde", "no_entregado", "pendiente"}

NextLedger ==
    \/ Tick
    \/ \E d \in Dates, c \in Dates, to \in SUBSET Teachers :
          Len(assignments) = 0 /\ createAssignment(d, c, FALSE, to)
    \/ \E u \in Users : submitAssignmentResponse(1, u)
    \/ \E u \in Users : markAssignmentCompleted(1, u)
    \/ \E u \in Teachers, s \in InjectStatuses :
          updateTeacherStatusInAssignment(1, u, s)
    \/ \E u \in Teachers, s \in DirectStatuses :
          updateTeacherAssignmentStatus("admin", 1, u, s)

SpecLedger == Init /\ [][NextLedger]_vars

----------------------------------------------------------------------------
(* Forking a recipient out of an assignment, then submissions on both documents *)

ForkBodies ==
    {b \in Bodies : /\ b.specificTeacherId # "none"
                    /\ b.isGeneral = UNDEF
                    /\ ~b.hasAssignedTo /\ b.assignedTo = {}}

NextFork ==
    \/ Tick
    \/ \E d \in Dates, c \in Dates, g \in BOOLEAN, to \in SUBSET Teachers :
          Len(assignments) = 0 /\ createAssignment(d, c, g, to)
    \/ \E id \in Ids, body \in ForkBodies : updateAssignmentByAdmin("admin", id, body)
    \/ \E id \in Ids, u \in Users : submitAssignmentResponse(id, u)

SpecFork == Init /\ [][NextFork]_vars

----------------------------------------------------------------------------
(* Creation and administrator edits of the dates *)

DateBodies ==
    {b \in Bodies : b.isGeneral = UNDEF /\ ~b.hasAssignedTo /\ b.assignedTo = {}}

NextDates ==
    \/ \E d \in Dates \cup {NoDateArg}, c \in Dates \cup {NoDateArg},
          g \in BOOLEAN, to \in SUBSET Teachers :
          Len(assignments) = 0 /\ createAssignment(d, c, g, to)
    \/ \E caller \in Users, id \in Ids, body \in DateBodies :
          updateAssignmentByAdmin(caller, id, body)

SpecDates == Init /\ [][NextDates]_vars

----------------------------------------------------------------------------
(* The stats recompute over a recipient's assignments *)

NextStats ==
    \/ Tick
    \/ \E d \in Dates, c \in Dates, to \in SUBSET Teachers :
          d <= c /\ createAssignment(d, c, FALSE, to)
    \/ \E id \in Ids : submitAssignmentResponse(id, "t1")
    \/ \E id \in Ids : updateTeacherStatusInAssignment(id, "t1", "not-delivered")
    \/ \E u \in Teachers : updateTeacherStats(u)

SpecStats == Init /\ [][NextStats]_vars

----------------------------------------------------------------------------
(* The status mappings applied to every response the schema admits *)

SchemaResponses(u) ==
    [user : {u}, submittedAt : {NullDate, 0},
     submissionStatus : {"on-time", "late", "closed", NULL},
     status : {"submitted", "reviewed", NULL}]

InitResolve ==
    /\ \E d \in Dates, c \in Dates, st \in StatusEnum,
          rs \in {<<>>} \cup {<<r>> : r \in SchemaResponses("t1")} :
          assignments = <<[NewAssignment(d, c, FALSE, {"t1"}, 0)
                              EXCEPT !.status = st, !.responses = rs]>>
    /\ teacherStats = [u \in Teachers |-> NoStats]
    /\ now \in Times
    /\ res = Answer("none", 0, "none", 0, "", FALSE)
    /\ requests = [p \in Procs |-> Idle]
    /\ extraStats = [u \in Teachers |-> <<>>]

NextResolve ==
    \/ getTeachersStatusForAssignment(1)
    \/ getTeacherFilteredAssignments("t1")
    \/ updateTeacherStats("t1")

SpecResolve == InitResolve /\ [][NextResolve]_vars

----------------------------------------------------------------------------
(* Submissions followed by dashboard reads *)

NextDashboard ==
    \/ Tick
    \/ \E d \in Dates, c \in Dates, to \in SUBSET Teachers :
          Len(assignments) = 0 /\ createAssignment(d, c, FALSE, to)
    \/ \E u \in Teachers : submitAssignmentResponse(1, u)
    \/ \E u \in Teachers : getUserDashboardStats(u)

SpecDashboard == Init /\ [][NextDashboard]_vars

----------------------------------------------------------------------------
(* Completion of assignments, by a recipient, by the administrator, in bulk *)

NextCompletion ==
    \/ Tick
    \/ \E d \in Dates, to \in SUBSET Teachers : createAssignment(d, d, FALSE, to)
    \/ \E id \in Ids : markAssignmentCompleted(id, "t1")
    \/ \E caller \in Users, id \in Ids : markAssignmentCompletedByAdmin(caller, id)
    \/ \E ids \in SUBSET Ids : markMultipleAssignmentsCompleted("admin", ids)

SpecCompletion == Init /\ [][NextCompletion]_vars

----------------------------------------------------------------------------
(* Forks of a recipient, around completions and edits of the original *)

NextForkEdit ==
    \/ \E d \in Dates, c \in Dates, g \in BOOLEAN, to \in SUBSET Teachers :
          Len(assignments) = 0 /\ createAssignment(d, c, g, to)
    \/ \E id \in Ids : markAssignmentCompletedByAdmin("admin", id)
    \/ \E id \in Ids, body \in DateBodies : updateAssignmentByAdmin("admin", id, body)
    \/ \E id \in Ids, u \in Teachers : submitAssignmentResponse(id, u)

SpecForkEdit == Init /\ [][NextForkEdit]_vars

----------------------------------------------------------------------------
(* The publication job over a stored collection. No handler can store the
   status 'scheduled' under the schema's enum (save() rejects it), and reads do
   not validate: the documents the job's query is written for are documents
   already in the database, with the statuses the controller assigns. *)

StoredStatuses == {"scheduled", "pending", "active", "publication_error"}

StoredAssignments ==
    {NewAssignment(MaxDate, MaxDate, g, IF g THEN {} ELSE {"t1"}, 0)
        @@ [scheduledPublish |-> TRUE, publishDate |-> p] :
     g \in BOOLEAN, p \in Dates}

InitScheduler ==
    /\ \E n \in 1..MaxAssignments :
          \E docs \in [1..n -> StoredAssignments], sts \in [1..n -> StoredStatuses] :
             assignments = [i \in 1..n |-> [docs[i] EXCEPT !.status = sts[i]]]
    /\ teacherStats = [u \in Teachers |-> NoStats]
    /\ now = 0
    /\ res = Answer("none", 0, "none", 0, "", FALSE)
    /\ requests = [p \in Procs |-> Idle]
    /\ extraStats = [u \in Teachers |-> <<>>]

NextScheduler ==
    \/ Tick
    \/ \E strictQuery \in BOOLEAN : publishScheduledAssignments(strictQuery)
    \/ \E id \in Ids, st \in {"pending", "scheduled"} : updateAssignmentStatus(id, st)

SpecScheduler == InitScheduler /\ [][NextScheduler]_vars

----------------------------------------------------------------------------
(* The publication job run again and again: every run that can change the
   state is eventually taken *)

NextJob ==
    \/ Tick
    \/ \E strictQuery \in BOOLEAN : publishScheduledAssignments(strictQuery)

SpecSchedulerFair ==
    /\ InitScheduler
    /\ [][NextJob]_vars
    /\ WF_vars(\E strictQuery \in BOOLEAN : publishScheduledAssignments(strictQuery))
    /\ WF_vars(Tick)

----------------------------------------------------------------------------
(* The coarse status over the operations that set it *)

Lifecycle ==
    {"scheduled", "pending", "active", "completed", "cancelled", "publication_error"}

\* publish dates of a request: NoDateArg (absent) is also the instant 0
PublishDates == 0..MaxDate

NextLifecycle ==
    \/ Tick
    \/ \E d \in Dates : Len(assignments) = 0 /\ createAssignment(d, d, FALSE, {"t1"})
    \/ \E p \in PublishDates, d \in Dates, c \in Dates \cup {MaxDate + 1},
          g \in BOOLEAN, to \in SUBSET Teachers : scheduleAssignment(p, d, c, g, to)
    \/ \E id \in Ids : cancelScheduledAssignment(id)
    \/ \E id \in Ids, p \in PublishDates, d \in Dates \cup {NoDateArg} :
          updateScheduledAssignment(id, p, d, NoDateArg)
    \/ \E id \in Ids, st \in Lifecycle : updateAssignmentStatus(id, st)
    \/ \E id \in Ids : markAssignmentCompletedByAdmin("admin", id)
    \/ \E strictQuery \in BOOLEAN : publishScheduledAssignments(strictQuery)

SpecLifecycle == Init /\ [][NextLifecycle]_vars

----------------------------------------------------------------------------
(* Creation, with and without a failure after the save *)

NextCreate ==
    \/ Tick
    \/ \E d \in Dates \cup {NoDateArg}, c \in Dates \cup {NoDateArg},
          g \in BOOLEAN, to \in SUBSET Teachers : createAssignment(d, c, g, to)
    \/ \E d \in Dates \cup {NoDateArg}, c \in Dates \cup {NoDateArg},
          g \in BOOLEAN, to \in SUBSET Teachers : createAssignmentSendFails(d, c, g, to)

SpecCreate == Init /\ [][NextCreate]_vars

----------------------------------------------------------------------------
(* The operations that act on behalf of an administrator, each behind auth *)

NextAuthz ==
    \/ Tick
    \/ Len(assignments) = 0 /\ createAssignment(1, MaxDate, FALSE, Teachers)
    \/ \E u \in Users : auth(u)
    \/ \E id \in Ids, st \in StatusEnum :
          res.op = "auth" /\ updateAssignmentStatus(id, st)
    \/ \E id \in Ids :
          res.op = "auth" /\ markAssignmentCompletedByAdmin(res.user, id)
    \/ \E id \in Ids, t \in Teachers, st \in InjectStatuses :
          res.op = "auth" /\ updateTeacherStatusInAssignment(id, t, st)
    \/ \E id \in Ids, t \in Teachers, st \in DirectStatuses :
          res.op = "auth" /\ updateTeacherAssignmentStatus(res.user, id, t, st)

SpecAuthz == Init /\ [][NextAuthz]_vars

----------------------------------------------------------------------------
(* The normal edit with no assignedTo in the request *)

NoRosterBodies ==
    {b \in Bodies : /\ b.specificTeacherId = "none"
                    /\ ~b.hasAssignedTo /\ b.assignedTo = {}}

NextEdit ==
    \/ Tick
    \/ \E d \in Dates, c \in Dates, g \in BOOLEAN, to \in SUBSET Teachers :
          Len(assignments) = 0 /\ createAssignment(d, c, g, to)
    \/ \E id \in Ids, body \in NoRosterBodies : updateAssignmentByAdmin("admin", id, body)

SpecEdit == Init /\ [][NextEdit]_vars

----------------------------------------------------------------------------
(* Two specific edits of one assignment interleaved at their awaits *)

InitForkRace ==
    /\ \E to \in SUBSET Teachers :
          to # {} /\ assignments = <<NewAssignment(1, MaxDate, FALSE, to, 0)>>
    /\ teacherStats = [u \in Teachers |-> NoStats]
    /\ now = 0
    /\ res = Answer("none", 0, "none", 0, "", FALSE)
    /\ requests = [p \in Procs |-> Idle]
    /\ extraStats = [u \in Teachers |-> <<>>]

NextForkRace ==
    \/ Tick
    \/ \E p \in Procs, id \in 1..MaxForkDocs, body \in ForkBodies :
          forkRead(p, "admin", id, body)
    \/ \E p \in Procs : forkSave(p)
    \/ \E p \in Procs : forkPull(p)

SpecForkRace == InitForkRace /\ [][NextForkRace]_vars

----------------------------------------------------------------------------
(* Two mutations of one assignment interleaved at their awaits *)

\* a response stored by a submission at time 0
submittedAtStart(u) ==
    CastResponse([user |-> u, submittedAt |-> 0, submissionStatus |-> "on-time",
                  status |-> UNDEF], 0)

InitInterleave ==
    /\ \E had \in SUBSET Teachers :
          assignments =
              <<[NewAssignment(1, MaxDate, FALSE, Teachers, 0) EXCEPT
                    !.responses = IF had = {} THEN <<>>
                                  ELSE IF had = Teachers
                                  THEN <<submittedAtStart("t1"), submittedAtStart("t2")>>
                                  ELSE <<submittedAtStart(CHOOSE u \in had : TRUE)>>]>>
    /\ teacherStats = [u \in Teachers |-> NoStats]
    /\ now = 0
    /\ res = Answer("none", 0, "none", 0, "", FALSE)
    /\ requests = [p \in Procs |-> Idle]
    /\ extraStats = [u \in Teachers |-> <<>>]

NextInterleave ==
    \/ Tick
    \/ \E p \in Procs, id \in Ids, u \in Teachers : submitRead(p, id, u)
    \/ \E p \in Procs : submitSave(p)
    \/ \E p \in Procs, id \in Ids, u \in Teachers, st \in InjectStatuses :
          injectRead(p, id, u, st)
    \/ \E p \in Procs : injectSave(p)

SpecInterleave == InitInterleave /\ [][NextInterleave]_vars

----------------------------------------------------------------------------
(* Two runs of the publication job over a stored collection *)

NextOverlap ==
    \/ Tick
    \/ \E p \in Procs, strictQuery \in BOOLEAN : publishFind(p, strictQuery)
    \/ \E p \in Procs : publishItem(p)

SpecOverlap == InitScheduler /\ [][NextOverlap]_vars

----------------------------------------------------------------------------
(* Recomputes of the cached counters interleaved with each other and with the
   handlers that change what they count *)

NextRecompute ==
    \/ Tick
    \/ \E d \in Dates : Len(assignments) = 0 /\ createAssignment(d, d, FALSE, Teachers)
    \/ \E u \in Teachers : submitAssignmentResponse(1, u)
    \/ \E p \in Procs, u \in Teachers : statsCompute(p, u)
    \/ \E p \in Procs : statsUpsert(p)
    \/ \E p \in Procs : statsInsert(p)

SpecRecompute == Init /\ [][NextRecompute]_vars

----------------------------------------------------------------------------
(* Properties *)

responseCount(a, u) ==
    Cardinality({k \in 1..Len(a.responses) : a.responses[k].user = u})

\* C1: in every state reached by submitAssignmentResponse, markAssignmentCompleted,
\* updateTeacherStatusInAssignment and updateTeacherAssignmentStatus calls, an
\* assignment holds at most one response per recipient, and after an accepted
\* submission the recipient's single response is the one just submitted.
C1_OneResponsePerRecipient ==
    /\ \A i \in 1..Len(assignments) : \A u \in Users :
          responseCount(assignments[i], u) <= 1
    /\ (res.op = "submit" /\ res.code = 200) =>
          /\ responseCount(assignments[res.id], res.user) = 1
          /\ find(assignments[res.id].responses, res.user).submittedAt = now

\* a resubmission was accepted and the recipient still has one response
C1_Witness ==
    /\ res.op = "submit" /\ res.code = 200 /\ res.had
    /\ responseCount(assignments[res.id], res.user) = 1

\* C2: a submitAssignmentResponse made at now > closeDate, by any caller, is
\* answered 403 and leaves the collection (every response of every assignment)
\* as it was.
C2_SubmitAfterCloseRejected ==
    [][(/\ res'.op = "submit"
        /\ exists(res'.id)
        /\ now > assignments[res'.id].closeDate)
       => (res'.code = 403 /\ assignments' = assignments)]_vars

\* a recipient who already had a response was turned away after the close date
C2_Witness ==
    /\ res.op = "submit" /\ res.code = 403 /\ res.note = "closed" /\ res.had
    /\ now > assignments[res.id].closeDate

\* C3: dueDate <= closeDate holds for every stored assignment after any sequence
\* of createAssignment and updateAssignmentByAdmin calls.
C3_DueNotAfterClose ==
    \A i \in 1..Len(assignments) : assignments[i].dueDate <= assignments[i].closeDate

\* C4: an accepted submission at now records on-time when now <= dueDate and late
\* when dueDate < now <= closeDate, and the per-assignment view then resolves the
\* recipient to completed, respectively completed-late.
C4_SubmissionStatusByDueDate ==
    (res.op = "submit" /\ res.code = 200) =>
        LET a == assignments[res.id]
            r == find(a.responses, res.user)
        IN
        /\ now <= a.dueDate =>
              /\ r.submissionStatus = "on-time"
              /\ viewStatus(a, res.user) = "completed"
        /\ (a.dueDate < now /\ now <= a.closeDate) =>
              /\ r.submissionStatus = "late"
              /\ viewStatus(a, res.user) = "completed-late"

\* a submission accepted in the window between dueDate and closeDate
C4_Witness ==
    /\ res.op = "submit" /\ res.code = 200
    /\ assignments[res.id].dueDate < now
    /\ now <= assignments[res.id].closeDate

\* the counter a resolved status is tallied into
Tally(status) ==
    CASE status = "completed-late" -> "completed"
      [] status = "not-delivered" -> "overdue"
      [] OTHER -> status

C6_GraceWindowPending ==
    \A i \in 1..Len(assignments) : \A u \in assignments[i].assignedTo :
        (/\ ~hasResponse(assignments[i], u)
         /\ assignments[i].status = "pending"
         /\ assignments[i].dueDate < now
         /\ now <= assignments[i].closeDate)
        => /\ statsBucket(assignments[i], u, now) = "pending"
           /\ listingStatus(assignments[i], u, now) = "pending"

\* the first matching rule of the claim, on a present response
RuleStatus(r) ==
    IF r.status = "submitted" /\ r.submissionStatus = "on-time" THEN "completed"
    ELSE IF r.status = "submitted" /\ r.submissionStatus = "late" THEN "completed-late"
    ELSE IF r.submissionStatus = "closed" THEN "not-delivered"
    ELSE IF r.status = "reviewed" /\ r.submittedAt = NullDate THEN "not-delivered"
    ELSE "pending"

\* C7: for every present response, the per-assignment view and the listing answer
\* the status of the first matching rule (submitted+on-time: completed;
\* submitted+late: completed-late; closed, or reviewed without submittedAt:
\* not-delivered; anything else: pending), and the stats recompute counts the
\* assignment in the counter of that status.
C7_FirstMatchingRule ==
    \A u \in assignments[1].assignedTo :
        hasResponse(assignments[1], u) =>
            LET rule == RuleStatus(find(assignments[1].responses, u)) IN
            /\ (res.op = "view" /\ res.code = 200) => res.body[u] = rule
            /\ (res.op = "listing" /\ res.user = u) => res.body[1] = rule
            /\ (res.op = "stats" /\ res.user = u) =>
                  /\ teacherStats[u].completed = (IF Tally(rule) = "completed" THEN 1 ELSE 0)
                  /\ teacherStats[u].overdue = (IF Tally(rule) = "overdue" THEN 1 ELSE 0)
                  /\ teacherStats[u].pending = (IF Tally(rule) = "pending" THEN 1 ELSE 0)

\* the view answered not-delivered for a response that is submitted but closed
C7_Witness ==
    /\ res.op = "view" /\ res.code = 200
    /\ hasResponse(assignments[1], "t1")
    /\ find(assignments[1].responses, "t1").status = "submitted"
    /\ find(assignments[1].responses, "t1").submissionStatus = "closed"
    /\ res.body["t1"] = "not-delivered"

\* C8: a submitAssignmentResponse by a user who is not in the assignment's
\* assignedTo is answered 403 and leaves every assignment as it was.
C8_NotAssignedRejected ==
    [][(/\ res'.op = "submit"
        /\ exists(res'.id)
        /\ res'.user \notin assignments[res'.id].assignedTo)
       => (res'.code = 403 /\ assignments' = assignments)]_vars

\* a recipient forked out of an assignment was turned away from the original
C8_Witness ==
    /\ res.op = "submit" /\ res.code = 403 /\ res.note = "not_assigned"
    /\ \E j \in 1..Len(assignments) :
          /\ assignments[j].originalAssignmentId = res.id
          /\ res.user \in assignments[j].assignedTo

\* C9: a recompute that directly follows a recompute for the same recipient, with
\* no assignment change and the same clock reading, leaves the cached counters
\* as they were.
C9_RecomputeIdempotent ==
    [][(res.op = "stats" /\ res'.op = "stats" /\ res'.user = res.user)
       => teacherStats' = teacherStats]_vars

\* a second recompute in a row, for a recipient who has assignments
C9_Witness ==
    /\ res.op = "stats" /\ res.note = "again"
    /\ teacherStats[res.user].total >= 1

assignedIds(u) == {i \in 1..Len(assignments) : u \in assignments[i].assignedTo}

submittedIds(u) ==
    {i \in assignedIds(u) :
        \E k \in 1..Len(assignments[i].responses) :
            /\ assignments[i].responses[k].user = u
            /\ assignments[i].responses[k].status = "submitted"
            /\ assignments[i].responses[k].submissionStatus \in {"on-time", "late"}}

\* C10: after updateTeacherStats(recipient), total is the number of assignments
\* whose assignedTo holds the recipient, completed counts the on-time and the late
\* submissions, and completed + pending + overdue = total.
C10_CountersPartitionTotal ==
    res.op = "stats" =>
        LET s == teacherStats[res.user] IN
        /\ s.total = Cardinality(assignedIds(res.user))
        /\ s.completed = Cardinality(submittedIds(res.user))
        /\ s.completed + s.pending + s.overdue = s.total

\* a recompute that counted an on-time and a late submission as completed
C10_Witness ==
    /\ res.op = "stats"
    /\ teacherStats[res.user].completed = 2
    /\ \E i \in assignedIds(res.user) :
          find(assignments[i].responses, res.user).submissionStatus = "late"
    /\ \E i \in assignedIds(res.user) :
          find(assignments[i].responses, res.user).submissionStatus = "on-time"

\* C11: a dashboard read that directly follows the recipient's accepted
\* submission returns counters equal to a full recompute over the recipient's
\* current assignments.
C11_DashboardAfterSubmitFresh ==
    [][(/\ res.op = "submit" /\ res.code = 200
        /\ res'.op = "dashboard" /\ res'.user = res.user)
       => res'.body = computeStats(assignments, res.user, now)]_vars

\* the response the claim's table gives for a status of either injection handler
TableResponse(status) ==
    CASE status \in {"entregado", "completed"} ->
            [submissionStatus |-> "on-time", status |-> "submitted", cleared |-> FALSE]
      [] status \in {"entregado_tarde", "completed-late"} ->
            [submissionStatus |-> "late", status |-> "submitted", cleared |-> FALSE]
      [] OTHER ->
            [submissionStatus |-> "closed", status |-> "reviewed", cleared |-> TRUE]

\* C12: after an accepted direct status injection, at any time, the recipient's
\* response is on-time/submitted for entregado, late/submitted for
\* entregado_tarde, closed/reviewed with submittedAt cleared for no_entregado,
\* and absent for pendiente (likewise for completed, completed-late,
\* not-delivered and pending of updateTeacherStatusInAssignment).
C12_InjectionTable ==
    (res.op \in {"direct", "inject"} /\ res.code = 200) =>
        LET a == assignments[res.id]
            r == find(a.responses, res.user)
            row == TableResponse(res.note)
        IN
        IF res.note \in {"pendiente", "pending"} THEN ~hasResponse(a, res.user)
        ELSE /\ hasResponse(a, res.user)
             /\ r.submissionStatus = row.submissionStatus
             /\ r.status = row.status
             /\ row.cleared <=> (r.submittedAt = NullDate)

\* the fields of an assignment other than its responses
coarse(a) == [a EXCEPT !.responses = <<>>]

\* C13: a direct per-recipient status injection, by either handler and whatever
\* it answers, leaves the coarse status (and every other field outside the
\* responses) of every assignment as it was, and leaves the response of every
\* other recipient as it was.
C13_InjectionFrame ==
    [][(res'.op \in {"direct", "inject"})
       => /\ Len(assignments') = Len(assignments)
          /\ \A i \in 1..Len(assignments) :
                /\ assignments'[i].status = assignments[i].status
                /\ coarse(assignments'[i]) = coarse(assignments[i])
                /\ \A u \in Users \ {res'.user} :
                      /\ hasResponse(assignments'[i], u) = hasResponse(assignments[i], u)
                      /\ find(assignments'[i].responses, u)
                            = find(assignments[i].responses, u)]_vars

\* an injection accepted on a completed assignment that holds another
\* recipient's response
C13_Witness ==
    /\ res.op \in {"direct", "inject"} /\ res.code = 200
    /\ assignments[res.id].status = "completed"
    /\ \E u \in Teachers \ {res.user} : hasResponse(assignments[res.id], u)

\* C14: markAssignmentCompletedByAdmin called by the administrator on an
\* assignment that is already completed, or at now > closeDate, fails and leaves
\* the collection as it was; otherwise it sets the coarse status to completed and
\* completedAt to now.
C14_AdminCompleteGuards ==
    [][(/\ res'.op = "adminComplete"
        /\ role(res'.user) = "admin"
        /\ exists(res'.id))
       => IF \/ assignments[res'.id].status = "completed"
             \/ now > assignments[res'.id].closeDate
          THEN res'.code # 200 /\ assignments' = assignments
          ELSE /\ res'.code = 200
               /\ assignments'[res'.id].status = "completed"
               /\ assignments'[res'.id].completedAt = now]_vars

\* C15: after a successful markAssignmentCompleted or
\* markAssignmentCompletedByAdmin, the cached counters of every recipient in the
\* assignment's assignedTo equal a recompute made at that moment.
C15_CompletionRecomputesAll ==
    (res.op \in {"complete", "adminComplete"} /\ res.code = 200) =>
        \A u \in assignments[res.id].assignedTo :
            teacherStats[u] = computeStats(assignments, u, now)

\* C16: an accepted markMultipleAssignmentsCompleted sets status = completed and
\* completedAt = now on the listed assignments that were not completed, leaves
\* every already-completed and every unlisted assignment as it was, and answers
\* a modifiedCount equal to the number of assignments it changed.
C16_BulkChangesOnlyListedOpen ==
    [][(res'.op = "bulk" /\ res'.code = 200)
       => /\ Len(assignments') = Len(assignments)
          /\ \A i \in 1..Len(assignments) :
                IF /\ i \in res'.body.assignmentIds
                   /\ assignments[i].status # "completed"
                THEN /\ assignments'[i].status = "completed"
                     /\ assignments'[i].completedAt = now
                ELSE assignments'[i] = assignments[i]
          /\ res'.body.modifiedCount =
                Cardinality({i \in 1..Len(assignments) :
                                assignments'[i] # assignments[i]})]_vars

\* a bulk call listed an assignment completed earlier and an open one, and
\* changed only the open one
C16_Witness ==
    /\ res.op = "bulk" /\ res.code = 200
    /\ res.body.modifiedCount = 1
    /\ Len(assignments) = 2
    /\ res.body.assignmentIds = {1, 2}
    /\ \E i \in 1..2 : /\ assignments[i].status = "completed"
                        /\ assignments[i].completedAt # NullDate
                        /\ assignments[i].completedAt < now

\* C17: a successful fork of recipient R out of assignment A removes R from
\* A.assignedTo and appends a new assignment with assignedTo = {R}, isGeneral =
\* false, originalAssignmentId = A and coarse status pending whatever A's status
\* is; and no later request addressed to A changes an assignment forked from A.
C17_ForkIsIndependent ==
    /\ [][(res'.op = "fork" /\ res'.code = 200)
          => LET forked == assignments'[Len(assignments')] IN
             /\ Len(assignments') = Len(assignments) + 1
             /\ res'.user \in assignments[res'.id].assignedTo
             /\ res'.user \notin assignments'[res'.id].assignedTo
             /\ forked.assignedTo = {res'.user}
             /\ forked.isGeneral = FALSE
             /\ forked.originalAssignmentId = res'.id
             /\ forked.status = "pending"
             /\ forked.responses = <<>>]_vars
    /\ [][\A j \in 1..Len(assignments) :
             (/\ assignments[j].originalAssignmentId # 0
              /\ res'.id = assignments[j].originalAssignmentId)
             => assignments'[j] = assignments[j]]_vars

\* a recipient was forked out of an assignment that was already completed
C17_Witness ==
    /\ res.op = "fork" /\ res.code = 200
    /\ assignments[res.id].status = "completed"
    /\ assignments[Len(assignments)].originalAssignmentId = res.id
    /\ assignments[Len(assignments)].status = "pending"

\* C18: a fork request is accepted only when the source assignment is general
\* and the recipient is in its assignedTo; any other fork request is rejected
\* and leaves the collection as it was.
C18_ForkRequiresGeneral ==
    [][(res'.op = "fork" /\ exists(res'.id))
       => IF /\ assignments[res'.id].isGeneral
             /\ res'.user \in assignments[res'.id].assignedTo
          THEN res'.code = 200
          ELSE res'.code # 200 /\ assignments' = assignments]_vars

C29_LifecycleValuesStorable ==
    /\ \A i \in 1..Len(assignments) : assignments[i].status \in Lifecycle
    /\ (/\ res.op = "schedule"
        /\ res.note \notin {"required", "due_before_publish", "close_before_due",
                             "no_teachers"})
          => /\ res.code = 201
             /\ assignments[res.id].status = "scheduled"
    /\ (res.op = "status" /\ exists(res.id))
          => /\ res.code = 200
             /\ assignments[res.id].status = res.note

\* C30: whenever createAssignment answers an error, the stored assignments and
\* every recipient's cached stats are as they were before the request.
C30_CreateErrorNoEffect ==
    [][(res'.op = "create" /\ res'.code >= 400)
       => /\ assignments' = assignments
          /\ teacherStats' = teacherStats]_vars

written(r) == r.doc[r.at]

C27_OneRecordPerRecipient ==
    \A p \in Procs :
        (requests[p].op = "stats" /\ requests[p].pc = "done")
        => LET u == requests[p].user IN
           /\ teacherStats[u] # NoStats
           /\ extraStats[u] = <<>>
           /\ teacherStats[u].total \in 0..Len(assignments)
           /\ teacherStats[u].total = teacherStats[u].completed
                 + teacherStats[u].pending + teacherStats[u].overdue


\* C31: an operation that sets a recipient's response state on behalf of an
\* administrator, or sets the coarse status, rejects a caller whose role is
\* not admin and changes nothing.
C31_NonAdminRejected ==
    [][(/\ res.op = "auth"
        /\ role(res.user) # "admin"
        /\ res'.op \in {"status", "adminComplete", "inject", "direct"})
       => /\ res'.code >= 400
          /\ assignments' = assignments
          /\ teacherStats' = teacherStats]_vars

\* C33: an accepted markAssignmentCompleted or submitAssignmentResponse by one
\* recipient leaves, for every other recipient of the assignment, the status the
\* listing resolves and the ability to complete it as they were.
C33_OtherRecipientUnaffected ==
    [][(res'.op \in {"submit", "complete"} /\ res'.code = 200)
       => \A y \in assignments[res'.id].assignedTo \ {res'.user} :
             /\ listingStatus(assignments'[res'.id], y, now)
                   = listingStatus(assignments[res'.id], y, now)
             /\ canComplete(assignments'[res'.id], y, now)
                   = canComplete(assignments[res'.id], y, now)]_vars

\* the status of the view that a status given to either injection handler names
SetStatus(status) ==
    CASE status \in {"entregado", "completed"} -> "completed"
      [] status \in {"entregado_tarde", "completed-late"} -> "completed-late"
      [] status \in {"no_entregado", "not-delivered"} -> "not-delivered"
      [] OTHER -> "pending"

\* C34: after an accepted status injection of X for a recipient, through either
\* handler and with or without a response before, the status that
\* getTeachersStatusForAssignment resolves for that recipient is X.
C34_InjectThenRead ==
    (res.op \in {"direct", "inject"} /\ res.code = 200)
        => viewStatus(assignments[res.id], res.user) = SetStatus(res.note)

\* C35: every response stored in an assignment belongs to a user in that
\* assignment's assignedTo, also after a fork or an update has removed a
\* recipient.
C35_ResponsesOfAssignedOnly ==
    \A i \in 1..Len(assignments) :
        \A j \in 1..Len(assignments[i].responses) :
            assignments[i].responses[j].user \in assignments[i].assignedTo

\* the specific assignments made from original i for recipient t
forksOf(i, t) ==
    {j \in 1..Len(assignments) :
        /\ assignments[j].originalAssignmentId = i
        /\ t \in assignments[j].assignedTo}

\* C37: for every original assignment and recipient at most one specific
\* assignment exists, and the recipient is never assigned to the original and
\* to its specific assignment at once, at every step of interleaved specific
\* edits.
C37_ForkExclusive ==
    \A i \in 1..Len(assignments), t \in Teachers :
        /\ Cardinality(forksOf(i, t)) <= 1
        /\ ~(t \in assignments[i].assignedTo /\ forksOf(i, t) # {})

\* C38: an accepted normal edit whose request carries no assignedTo leaves the
\* assignment's assignedTo as it was, whatever dates and isGeneral it carries.
C38_EditKeepsRoster ==
    [][(res'.op = "update" /\ res'.code = 200)
       => assignments'[res'.id].assignedTo = assignments[res'.id].assignedTo]_vars

\* C39: every assignment whose coarse status is pending, active or completed
\* has at least one recipient in assignedTo.
C39_LiveAssignmentHasRecipient ==
    \A i \in 1..Len(assignments) :
        assignments[i].status \in {"pending", "active", "completed"}
            => assignments[i].assignedTo # {}

\* assignment i is stored scheduled and due
dueScheduled(i) ==
    /\ i \in 1..Len(assignments)
    /\ assignments[i].status = "scheduled"
    /\ assignments[i].scheduledPublish
    /\ assignments[i].publishDate <= now

====
